---- MODULE Spec2Model ----
(***************************************************************************)
(* A model of mlexpy's experiment controller (src/mlexpy/experiment.py):   *)
(* ExperimentBase, ClassifierExperimentBase and RegressionExperimentBase.  *)
(*                                                                         *)
(* One controller instance is modelled.  Init is the state right after     *)
(* __init__; every method is one action.  Each action records the call in  *)
(* op/args, what it raised in raised, what it returned in result, and the  *)
(* calls it made to its collaborators (metric functions, sklearn search    *)
(* objects, the model, the file system) in calls, in the order made.       *)
(***************************************************************************)
EXTENDS Integers, Sequences, FiniteSets, TLC

VARIABLES
    ctor,             \* the arguments __init__ was called with
    kind,             \* which class was instantiated
    store_model,      \* attribute self.store_model
    load_model,       \* attribute self.load_model
    model_dir,        \* attribute self.model_dir
    model_tag,        \* attribute self.model_tag
    dirs,             \* directories that exist on disk
    files,            \* files on disk: set of [path, format, model]
    rnd,              \* state of self.rnd (np.random.RandomState)
    cv_split_count,   \* attribute self.cv_split_count
    metric_dict,      \* attribute self.metric_dict, in insertion order
    standard_metric,  \* attribute self.standard_metric
    baseline_value,   \* attribute self.baseline_value
    gens,             \* split counts of the generators cv_splits has returned
    produced,         \* fold partitions generators have produced, oldest first
    op,               \* the last method called
    args,             \* its arguments
    raised,           \* the exception it raised, or NoError
    result,           \* what it returned
    calls,            \* the collaborator calls it made, in order
    nOps              \* number of method calls made so far

vars == <<ctor, kind, store_model, load_model, model_dir, model_tag, dirs, files,
          rnd, cv_split_count, metric_dict, standard_metric, baseline_value,
          gens, produced, op, args, raised, result, calls, nOps>>

ioVars == <<dirs, files>>
cvVars == <<rnd, gens, produced>>
attrVars == <<ctor, kind, store_model, load_model, model_dir, model_tag,
              cv_split_count, standard_metric>>

(***************************************************************************)
(* Python values.                                                          *)
(***************************************************************************)
None == "None"
NoError == "NoError"
Undefined == "<undefined attribute>"

\* An optional number: None, or a value (self.baseline_value).
NoneValue == [isNone |-> TRUE, v |-> 0]

Value(n) == [isNone |-> FALSE, v |-> n]

\* Python truthiness, per type of the values the controller tests with `not x`.
TruthyCallable(f) == f # None

TruthyStr(s) == s # ""

TruthyNumber(b) == ~b.isNone /\ b.v # 0

(***************************************************************************)
(* A Python dict, insertion ordered: a sequence of [key, value] records    *)
(* with distinct keys.                                                     *)
(***************************************************************************)
DictKeys(d) == {d[i].key : i \in 1..Len(d)}

DictHas(d, k) == \E i \in 1..Len(d) : d[i].key = k

DictGet(d, k) == d[CHOOSE i \in 1..Len(d) : d[i].key = k].value

DictSet_alwaysAppend(d, k, v) == Append(d, [key |-> k, value |-> v])

\* d[k] = v: an existing key keeps its position, a new key goes last.
DictSet(d, k, v) ==
    IF DictHas(d, k)
    THEN [i \in 1..Len(d) |-> IF d[i].key = k THEN [key |-> k, value |-> v] ELSE d[i]]
    ELSE Append(d, [key |-> k, value |-> v])

\* del d[k], for a key that is present.
DictDel(d, k) == SelectSeq(d, LAMBDA e : e.key # k)

\* `sub in s` for strings, which are modelled as sequences of characters.
Contains(sub, s) ==
    \E i \in 1..(Len(s) - Len(sub) + 1) : SubSeq(s, i, i + Len(sub) - 1) = sub

(***************************************************************************)
(* Construction: ExperimentBase.__init__ and the two specializations.      *)
(***************************************************************************)
Kinds == {"ExperimentBase", "ClassifierExperimentBase", "RegressionExperimentBase"}

\* Callables a caller may pass as model_storage_function / model_loading_function.
StorageArgs == {None, "custom_storage_function"}

LoadingArgs == {None, "custom_loading_function"}

\* model_dir argument: absent, a str, or a pathlib.Path.
ModelDirArgs == {None, "str", "Path"}

DefaultTag == "_development"

\* self.store_model after lines 65-80: the loading branch's else also assigns it.
BoundStoreModel(msf, mlf) ==
    LET first == IF ~TruthyCallable(msf) THEN "default_store_model" ELSE msf
    IN  IF ~TruthyCallable(mlf) THEN first ELSE mlf

\* self.load_model after lines 73-80: assigned only when no loading function is given.
BoundLoadModel(mlf) ==
    IF ~TruthyCallable(mlf) THEN "default_load_model" ELSE Undefined

\* self.model_dir after lines 82-96.
ResolvedModelDir(mdir, process_tag) ==
    IF mdir = None THEN <<"sys.path[-1]", ".models", process_tag>>
    ELSE <<"model_dir", process_tag>>

\* Metric names, as character sequences.
n_f1 == <<"f", "1">>

n_log_loss == <<"l", "o", "g", "_", "l", "o", "s", "s">>

n_balanced_accuracy ==
    <<"b", "a", "l", "a", "n", "c", "e", "d", "_", "a", "c", "c", "u", "r", "a", "c", "y">>

n_accuracy == <<"a", "c", "c", "u", "r", "a", "c", "y">>

n_confusion_matrix ==
    <<"c", "o", "n", "f", "u", "s", "i", "o", "n", "_", "m", "a", "t", "r", "i", "x">>

n_classification_report ==
    <<"c", "l", "a", "s", "s", "i", "f", "i", "c", "a", "t", "i", "o", "n", "_",
      "r", "e", "p", "o", "r", "t">>

n_mse == <<"m", "s", "e">>

n_mae == <<"m", "a", "e">>

Entry(k, v) == [key |-> k, value |-> v]

ClassifierMetrics ==
    << Entry(n_f1, "f1_score"),
       Entry(n_log_loss, "log_loss"),
       Entry(n_balanced_accuracy, "balanced_accuracy_score"),
       Entry(n_accuracy, "accuracy_score"),
       Entry(n_confusion_matrix, "confusion_matrix"),
       Entry(n_classification_report, "classification_report") >>

RegressionMetrics ==
    << Entry(n_mse, "mean_squared_error"), Entry(n_mae, "mean_absolute_error") >>

InitialMetrics(k) ==
    IF k = "ClassifierExperimentBase" THEN ClassifierMetrics
    ELSE IF k = "RegressionExperimentBase" THEN RegressionMetrics
    ELSE <<>>

InitialStandardMetric(k) ==
    IF k = "ClassifierExperimentBase" THEN "f1_macro"
    ELSE IF k = "RegressionExperimentBase" THEN "neg_root_mean_squared_error"
    ELSE ""

\* np.random.RandomState, abstracted to a full-period congruential generator.
RndModulus == 16

RndMul == 5

RndInc == 3

Seed(rnd_int) == rnd_int % RndModulus

NextRnd(s) == (RndMul * s + RndInc) % RndModulus

Constructed(k, msf, mlf, rnd_int, split_count, mdir) ==
    /\ ctor = [kind |-> k, model_storage_function |-> msf,
               model_loading_function |-> mlf, rnd_int |-> rnd_int,
               cv_split_count |-> split_count, model_dir |-> mdir]
    /\ kind = k
    /\ store_model = BoundStoreModel(msf, mlf)
    /\ load_model = BoundLoadModel(mlf)
    /\ model_dir = ResolvedModelDir(mdir, DefaultTag)
    /\ model_tag = DefaultTag
    /\ dirs = {}
    /\ files = {}
    /\ rnd = Seed(rnd_int)
    /\ cv_split_count = split_count
    /\ metric_dict = InitialMetrics(k)
    /\ standard_metric = InitialStandardMetric(k)
    /\ baseline_value = NoneValue
    /\ gens = {}
    /\ produced = <<>>
    /\ op = "__init__"
    /\ args = ctor
    /\ raised = NoError
    /\ result = None
    /\ calls = <<>>
    /\ nOps = 0

(***************************************************************************)
(* Model persistence.                                                      *)
(***************************************************************************)
\* A model object: which optional capabilities it exposes, and its truth value
\* (None and objects with an empty __len__ are falsy).
Models == [has_save_model : BOOLEAN, has_load_model : BOOLEAN, truthy : BOOLEAN]

ModelPath(ext) == [dir |-> model_dir, file |-> <<model_tag, ext>>]

\* The path and format default_store_model writes for a model (lines 217-225).
StoreTarget(model) ==
    IF model.has_save_model
    THEN [path |-> ModelPath(".json"), format |-> "native"]
    ELSE [path |-> ModelPath(".joblib"), format |-> "joblib"]

\* The path and format default_load_model reads for a model (lines 231-240).
LoadTarget(model) ==
    IF model.has_load_model /\ model.truthy
    THEN [path |-> ModelPath(".json"), format |-> "native"]
    ELSE [path |-> ModelPath(".joblib"), format |-> "joblib"]

FileAt(path) == {f \in files : f.path = path}

\* The effect of default_store_model(model) on the state.
DoDefaultStore(model) ==
    LET t == StoreTarget(model) IN
    /\ dirs' = dirs \cup {model_dir}
    /\ files' = (files \ FileAt(t.path))
                 \cup {[path |-> t.path, format |-> t.format, model |-> model]}
    /\ raised' = NoError
    /\ result' = None
    /\ calls' = << [fn |-> IF model.has_save_model THEN "model.save_model" ELSE "joblib.dump",
                    path |-> t.path, format |-> t.format] >>

\* The effect of default_load_model(model) on the state.
DoDefaultLoad(model) ==
    LET t == LoadTarget(model) IN
    /\ UNCHANGED ioVars
    /\ calls' = << [fn |-> IF t.format = "native" THEN "model.load_model" ELSE "joblib.load",
                    path |-> t.path, format |-> t.format] >>
    /\ IF FileAt(t.path) = {}
       THEN /\ raised' = "FileNotFoundError"
            /\ result' = None
       ELSE /\ raised' = NoError
            /\ result' = (CHOOSE f \in FileAt(t.path) : TRUE).model

default_store_model(model) ==
    /\ op' = "default_store_model"
    /\ args' = [model |-> model]
    /\ DoDefaultStore(model)
    /\ UNCHANGED <<attrVars, cvVars, metric_dict, baseline_value, nOps>>

default_load_model(model) ==
    /\ op' = "default_load_model"
    /\ args' = [model |-> model]
    /\ DoDefaultLoad(model)
    /\ UNCHANGED <<attrVars, cvVars, metric_dict, baseline_value, nOps>>

\* A caller invoking the bound strategy slot: self.store_model(model).
call_store_model(model) ==
    /\ op' = "store_model"
    /\ args' = [model |-> model]
    /\ IF store_model = "default_store_model"
       THEN DoDefaultStore(model)
       ELSE /\ calls' = << [fn |-> store_model, path |-> ModelPath(""), format |-> "custom"] >>
            /\ raised' = NoError
            /\ result' = None
            /\ UNCHANGED ioVars
    /\ UNCHANGED <<attrVars, cvVars, metric_dict, baseline_value, nOps>>

\* A caller invoking the bound strategy slot: self.load_model(model).
call_load_model(model) ==
    /\ op' = "load_model"
    /\ args' = [model |-> model]
    /\ IF load_model = Undefined
       THEN /\ raised' = "AttributeError"
            /\ result' = None
            /\ calls' = <<>>
            /\ UNCHANGED ioVars
       ELSE DoDefaultLoad(model)
    /\ UNCHANGED <<attrVars, cvVars, metric_dict, baseline_value, nOps>>

\* Defaults of __init__: rnd_int = 100, cv_split_count = 5.
DefaultRndInt == 100

DefaultSplitCount == 5

InitIO ==
    \E k \in Kinds, msf \in StorageArgs, mlf \in LoadingArgs, mdir \in ModelDirArgs :
        Constructed(k, msf, mlf, DefaultRndInt, DefaultSplitCount, mdir)

NextIO ==
    \/ \E m \in Models : default_store_model(m)
    \/ \E m \in Models : default_load_model(m)
    \/ \E m \in Models : call_store_model(m)
    \/ \E m \in Models : call_load_model(m)

SpecIO == InitIO /\ [][NextIO]_vars

(***************************************************************************)
(* Cross-validation splits and search.                                     *)
(***************************************************************************)
\* Number of records of the data the folds partition.
NData == 5

\* self.test_cv_split = 0.4, as a fraction.
TestSplitNum == 2

TestSplitDen == 5

\* Records in the test part of a fold: ceil(test_size * n), as sklearn rounds it.
TestCount == (TestSplitNum * NData + TestSplitDen - 1) \div TestSplitDen

\* The partition one draw of the random source selects: a shuffle of the
\* records, abstracted to the rotation the draw picks.
FoldOf(draw) ==
    LET test == {((draw + j) % NData) + 1 : j \in 0..(TestCount - 1)}
    IN  [test |-> test, train |-> (1..NData) \ test]

\* The folds a generator with n splits yields when iterated from state s: each
\* split draws from, and advances, the random source it was given.
RECURSIVE Folds(_, _)
Folds(s, n) == IF n = 0 THEN <<>> ELSE <<FoldOf(s)>> \o Folds(NextRnd(s), n - 1)

RECURSIVE Advance(_, _)
Advance(s, n) == IF n = 0 THEN s ELSE Advance(NextRnd(s), n - 1)

\* The random source a generator created by cv_splits draws from when iterated:
\* random_state=self.rnd hands it the controller's own RandomState object.
GeneratorSource == rnd

\* The controller's random source after a generator has yielded n folds.
SourceAfter(n) == Advance(rnd, n)

MaxSplits == 2

MaxProduced == 3

SplitCounts == 1..MaxSplits

Call(fn, arg) == [fn |-> fn, arg |-> arg]

\* Iterating a generator (StratifiedShuffleSplit.split) of n splits.
DoSplit(n) ==
    /\ produced' = Append(produced, [n_splits |-> n, folds |-> Folds(GeneratorSource, n)])
    /\ rnd' = SourceAfter(n)

cv_splits(n_splits) ==
    /\ op' = "cv_splits"
    /\ args' = [n_splits |-> n_splits]
    /\ gens' = gens \cup {n_splits}
    /\ raised' = NoError
    /\ result' = [n_splits |-> n_splits, test_size |-> <<TestSplitNum, TestSplitDen>>]
    /\ calls' = << Call("StratifiedShuffleSplit", n_splits) >>
    /\ UNCHANGED <<attrVars, ioVars, rnd, produced, metric_dict, baseline_value, nOps>>

\* A caller (or a search object) iterating a generator cv_splits returned.
split(n_splits) ==
    /\ n_splits \in gens
    /\ Len(produced) < MaxProduced
    /\ op' = "split"
    /\ args' = [n_splits |-> n_splits]
    /\ DoSplit(n_splits)
    /\ raised' = NoError
    /\ result' = Len(produced')
    /\ calls' = <<>>
    /\ UNCHANGED <<attrVars, ioVars, gens, metric_dict, baseline_value, nOps>>

\* A parameter space: absent (None), or a mapping with the given keys.
NoParams == [given |-> FALSE, keys |-> {}]

Params == {NoParams, [given |-> TRUE, keys |-> {}], [given |-> TRUE, keys |-> {"p"}]}

\* Python truthiness of params: None and the empty dict are falsy.
TruthyParams(p) == p.given /\ p.keys # {}

CvModels == {"grid_search", "random_search", "bayes_search"}

StandardMetricMissing_unchecked == FALSE

\* `not self.standard_metric` (line 174).
StandardMetricMissing == ~TruthyStr(standard_metric)

SearchClass(cv_model) ==
    IF cv_model = "grid_search" THEN "GridSearchCV" ELSE "RandomizedSearchCV"

\* The body of cv_search (lines 174-201).
DoCvSearch(parameters, cv_model) ==
    IF StandardMetricMissing
    THEN /\ raised' = "NotImplementedError"
         /\ result' = None
         /\ calls' = <<>>
         /\ UNCHANGED cvVars
    ELSE /\ Len(produced) < MaxProduced
         /\ gens' = gens \cup {cv_split_count}
         /\ DoSplit(cv_split_count)
         /\ raised' = NoError
         /\ result' = "best_estimator_"
         /\ calls' = << Call("cv_splits", cv_split_count),
                        Call(SearchClass(cv_model), standard_metric),
                        Call("cv_search.fit", cv_split_count),
                        Call("cv_report", 0) >>

cv_search(parameters, cv_model) ==
    /\ op' = "cv_search"
    /\ args' = [params |-> parameters, cv_model |-> cv_model]
    /\ DoCvSearch(parameters, cv_model)
    /\ UNCHANGED <<attrVars, ioVars, metric_dict, baseline_value, nOps>>

train_model(params, cv_model) ==
    /\ op' = "train_model"
    /\ args' = [params |-> params, cv_model |-> cv_model]
    /\ IF TruthyParams(params)
       THEN DoCvSearch(params, cv_model)
       ELSE /\ raised' = NoError
            /\ result' = "model"
            /\ calls' = << Call("model.fit", 0) >>
            /\ UNCHANGED cvVars
    /\ UNCHANGED <<attrVars, ioVars, metric_dict, baseline_value, nOps>>

CtorSeeds == {DefaultRndInt, 7}

InitCV ==
    \E k \in Kinds, seed \in CtorSeeds :
        Constructed(k, None, None, seed, DefaultSplitCount, None)

NextCV ==
    \/ \E n \in SplitCounts : cv_splits(n)
    \/ \E n \in SplitCounts : split(n)
    \/ \E p \in Params, m \in CvModels : cv_search(p, m)
    \/ \E p \in Params, m \in CvModels : train_model(p, m)

SpecCV == InitCV /\ [][NextCV]_vars

(***************************************************************************)
(* The metric registry and evaluate_predictions.                           *)
(***************************************************************************)
MaxOps == 3

\* How one call of a metric function ends.
Outcomes == {"ok", "ValueError", "TypeError"}

NoFn == "<no function>"

\* How the metric functions behave on the arguments of one evaluation: the
\* function `bad` ends its call on the scored value as on_pred and its call on
\* class_probabilities as on_proba; every other function returns a score.
OutcomeOf(a, fn, on) ==
    IF fn # a.bad THEN "ok"
    ELSE IF on = "class_probabilities" THEN a.on_proba ELSE a.on_pred

\* One event of an evaluation: a metric call, or a printed line.
MetricCall(fn, name, on, average) == [fn |-> fn, name |-> name, on |-> on, average |-> average]

Printed(kindOfLine, name) == [fn |-> "print", name |-> name, on |-> kindOfLine, average |-> ""]

\* What a metric call that succeeds returns: the score of fn on that argument.
Score(fn, on, average) == [fn |-> fn, on |-> on, average |-> average]

f1 == <<"f", "1">>

Suffixed_unsuffixed(name, average) == name

Suffixed(name, average) ==
    name \o (IF average = "macro" THEN <<"_", "m", "a", "c", "r", "o">>
             ELSE IF average = "micro" THEN <<"_", "m", "i", "c", "r", "o">>
             ELSE <<"_", "w", "e", "i", "g", "h", "t", "e", "d">>)

Averages == <<"macro", "micro", "weighted">>

\* An evaluation in progress: the result so far, the events so far, and the
\* exception that ended it (NoError while it runs).
Running(res, evs) == [result |-> res, calls |-> evs, raised |-> NoError]

\* `if "f1" in name` (line 301).
IsF1Name(name) == Contains(f1, name)

Caught_any(outcome) == outcome # "ok"

\* The exceptions the two try blocks catch (lines 316, 320).
Caught(outcome) == outcome = "ValueError"

\* Lines 302-312: the three averaged calls, none of them in a try block.
RECURSIVE ScoreF1(_, _, _, _, _)
ScoreF1(a, e, scored, st, k) ==
    IF k > Len(Averages) THEN st
    ELSE LET avg == Averages[k]
             ev == Append(st.calls, MetricCall(e.value, e.key, scored, avg))
             out == OutcomeOf(a, e.value, scored)
         IN  IF out # "ok"
             THEN [result |-> st.result, calls |-> ev, raised |-> out]
             ELSE ScoreF1(a, e, scored,
                          Running(DictSet(st.result, Suffixed(e.key, avg),
                                          Score(e.value, scored, avg)), ev),
                          k + 1)

\* The fallback order reversed: class_probabilities first, the scored value second.
ScoreWithFallback_probaFirst(a, e, scored, st) ==
    LET ev1 == Append(st.calls, MetricCall(e.value, e.key, "class_probabilities", ""))
        out1 == OutcomeOf(a, e.value, "class_probabilities")
        ev2 == Append(ev1, MetricCall(e.value, e.key, scored, ""))
        out2 == OutcomeOf(a, e.value, scored)
    IN  IF out1 = "ok"
        THEN Running(DictSet(st.result, e.key,
                             Score(e.value, "class_probabilities", "")), ev1)
        ELSE IF out1 # "ValueError"
        THEN [result |-> st.result, calls |-> ev1, raised |-> out1]
        ELSE IF out2 = "ok"
        THEN Running(DictSet(st.result, e.key, Score(e.value, scored, "")), ev2)
        ELSE IF out2 # "ValueError"
        THEN [result |-> st.result, calls |-> ev2, raised |-> out2]
        ELSE Running(st.result, Append(ev2, Printed("unknown issues", e.key)))

\* Lines 314-321: the call on the scored value, then on class_probabilities.
ScoreWithFallback(a, e, scored, st) ==
    LET ev1 == Append(st.calls, MetricCall(e.value, e.key, scored, ""))
        out1 == OutcomeOf(a, e.value, scored)
        ev2 == Append(ev1, MetricCall(e.value, e.key, "class_probabilities", ""))
        out2 == OutcomeOf(a, e.value, "class_probabilities")
    IN  IF out1 = "ok"
        THEN Running(DictSet(st.result, e.key, Score(e.value, scored, "")), ev1)
        ELSE IF ~Caught(out1)
        THEN [result |-> st.result, calls |-> ev1, raised |-> out1]
        ELSE IF out2 = "ok"
        THEN Running(DictSet(st.result, e.key,
                             Score(e.value, "class_probabilities", "")), ev2)
        ELSE IF ~Caught(out2)
        THEN [result |-> st.result, calls |-> ev2, raised |-> out2]
        ELSE Running(st.result, Append(ev2, Printed("unknown issues", e.key)))

\* Lines 300-321: the loop over the registry, in insertion order.
RECURSIVE ClassifierLoop(_, _, _, _, _)
ClassifierLoop(a, d, scored, st, i) ==
    IF i > Len(d) \/ st.raised # NoError THEN st
    ELSE ClassifierLoop(a, d, scored,
                        IF IsF1Name(d[i].key)
                        THEN ScoreF1(a, d[i], scored, st, 1)
                        ELSE ScoreWithFallback(a, d[i], scored, st),
                        i + 1)

\* Lines 323-324: one printed line per result.
RECURSIVE PrintScores(_, _, _)
PrintScores(res, evs, i) ==
    IF i > Len(res) THEN evs
    ELSE PrintScores(res, Append(evs, Printed("score", res[i].key)), i + 1)

\* Lines 476-478: every metric on the scored value, printed as it is computed.
RECURSIVE RegressionLoop(_, _, _, _, _)
RegressionLoop(a, d, scored, st, i) ==
    IF i > Len(d) \/ st.raised # NoError THEN st
    ELSE LET e == d[i]
             ev == Append(st.calls, MetricCall(e.value, e.key, scored, ""))
             out == OutcomeOf(a, e.value, scored)
         IN  RegressionLoop(a, d, scored,
                 IF out # "ok"
                 THEN [result |-> st.result, calls |-> ev, raised |-> out]
                 ELSE Running(DictSet(st.result, e.key, Score(e.value, scored, "")),
                              Append(ev, Printed("score", e.key))),
                 i + 1)

BaselineMissing_unchecked(a) == FALSE

\* `if not self.baseline_value` under `if baseline_prediction` (lines 289-290, 465-466).
BaselineMissing(a) == a.baseline_prediction /\ ~TruthyNumber(baseline_value)

\* The value to score (lines 294-296, 470-472).
EvaluationPrediction(a) ==
    IF a.baseline_prediction THEN "baseline_value" ELSE "predictions"

\* The whole of evaluate_predictions, for the class instantiated.
Evaluation(a) ==
    IF kind = "ExperimentBase"
    THEN [result |-> <<>>, calls |-> <<>>, raised |-> "NotImplementedError"]
    ELSE IF BaselineMissing(a)
    THEN [result |-> <<>>, calls |-> <<>>, raised |-> "ValueError: no baseline value"]
    ELSE IF kind = "ClassifierExperimentBase"
    THEN LET st == ClassifierLoop(a, metric_dict, EvaluationPrediction(a),
                                  Running(<<>>, <<>>), 1)
         IN  IF st.raised # NoError THEN st
             ELSE Running(st.result, PrintScores(st.result, st.calls, 1))
    ELSE RegressionLoop(a, metric_dict, EvaluationPrediction(a), Running(<<>>, <<>>), 1)

RegisteredFns == {metric_dict[i].value : i \in 1..Len(metric_dict)}

EvalArgs ==
    [baseline_prediction : BOOLEAN, bad : RegisteredFns \cup {NoFn},
     on_pred : Outcomes, on_proba : Outcomes]

\* evaluate_predictions(labels, predictions, class_probabilities, baseline_prediction).
DoEvaluatePredictions(a) ==
    /\ op' = "evaluate_predictions"
    /\ args' = a
    /\ \E st \in {Evaluation(a)} :
         /\ raised' = st.raised
         /\ calls' = st.calls
         /\ result' = IF st.raised = NoError THEN st.result ELSE <<>>
    /\ UNCHANGED <<attrVars, ioVars, cvVars, metric_dict, baseline_value>>

evaluate_predictions(a) ==
    /\ nOps < MaxOps
    /\ nOps' = nOps + 1
    /\ DoEvaluatePredictions(a)

add_metric(metric, name) ==
    /\ nOps < MaxOps
    /\ nOps' = nOps + 1
    /\ op' = "add_metric"
    /\ args' = [metric |-> metric, name |-> name]
    /\ metric_dict' = DictSet(metric_dict, name, metric)
    /\ raised' = NoError
    /\ result' = <<>>
    /\ calls' = <<>>
    /\ UNCHANGED <<attrVars, ioVars, cvVars, baseline_value>>

\* remove_metric(name): del self.metric_dict[name].
DoRemoveMetric(name) ==
    /\ op' = "remove_metric"
    /\ args' = [name |-> name]
    /\ IF DictHas(metric_dict, name)
       THEN /\ metric_dict' = DictDel(metric_dict, name)
            /\ raised' = NoError
       ELSE /\ UNCHANGED metric_dict
            /\ raised' = "KeyError"
    /\ result' = <<>>
    /\ calls' = <<>>
    /\ UNCHANGED <<attrVars, ioVars, cvVars, baseline_value>>

remove_metric(name) ==
    /\ nOps < MaxOps
    /\ nOps' = nOps + 1
    /\ DoRemoveMetric(name)

\* A child class configuring self.baseline_value.
set_baseline_value(v) ==
    /\ nOps < MaxOps
    /\ nOps' = nOps + 1
    /\ kind # "ExperimentBase"
    /\ op' = "set_baseline_value"
    /\ args' = [value |-> v]
    /\ baseline_value' = Value(v)
    /\ raised' = NoError
    /\ result' = <<>>
    /\ calls' = <<>>
    /\ UNCHANGED <<attrVars, ioVars, cvVars, metric_dict>>

n_my_f1 == <<"m", "y", "_", "f", "1">>

n_fb1 == <<"f", "b", "1">>

AddNames == {n_f1, n_my_f1, n_fb1, n_mse}

AddFns == {"custom_metric", "log_loss"}

RemoveNames == AddNames \cup {n_log_loss}

BaselineValues == {0, 1}

InitEval ==
    \E k \in Kinds : Constructed(k, None, None, DefaultRndInt, DefaultSplitCount, None)

\* The calls a caller makes, while the model's budget of calls lasts.
AddMetricCall == nOps < MaxOps /\ \E m \in AddFns, n \in AddNames : add_metric(m, n)

RemoveMetricCall == nOps < MaxOps /\ \E n \in RemoveNames : remove_metric(n)

SetBaselineCall == nOps < MaxOps /\ \E v \in BaselineValues : set_baseline_value(v)

EvaluateCall == nOps < MaxOps /\ \E a \in EvalArgs : evaluate_predictions(a)

NextEval ==
    \/ AddMetricCall
    \/ RemoveMetricCall
    \/ SetBaselineCall
    \/ EvaluateCall

SpecEval == InitEval /\ [][NextEval]_vars

(***************************************************************************)
(* The classifier's registry emptied: any number of remove_metric calls,   *)
(* one custom metric under a name that holds "f1" inside, and evaluations  *)
(* of the supplied predictions.                                            *)
(***************************************************************************)
InitDrain ==
    Constructed("ClassifierExperimentBase", None, None, DefaultRndInt, DefaultSplitCount, None)

DrainNames == DictKeys(ClassifierMetrics) \cup {n_my_f1}

DrainCall == \E n \in DrainNames : DoRemoveMetric(n) /\ UNCHANGED nOps

AddF1Call == nOps < MaxOps /\ add_metric("custom_metric", n_my_f1)

EvaluateDrainedCall ==
    \E a \in {x \in EvalArgs : ~x.baseline_prediction} :
        DoEvaluatePredictions(a) /\ UNCHANGED nOps

NextDrain ==
    \/ DrainCall
    \/ AddF1Call
    \/ EvaluateDrainedCall

SpecDrain == InitDrain /\ [][NextDrain]_vars

(***************************************************************************)
(* ROC evaluation (ClassifierExperimentBase.evaluate_roc_metrics).         *)
(***************************************************************************)
MaxRows == 3

\* Row widths of the probability matrix: none, one, two (binary), three.
Widths == 0..3

\* Probabilities, in units in which 1 is certainty.
ProbLevels == {0, 1}

\* Class labels of the test data.
Labels == 0..2

RowsOf(w) == [1..w -> ProbLevels]

Matrices(r, w) == [1..r -> RowsOf(w)]

RECURSIVE SumSeq(_, _)
SumSeq(q, n) == IF n = 0 THEN 0 ELSE q[n] + SumSeq(q, n - 1)

\* The sum and the product of the values of a function over a set.
RECURSIVE SumOver(_, _)
SumOver(S, f) ==
    IF S = {} THEN 0
    ELSE LET x == CHOOSE y \in S : TRUE IN f[x] + SumOver(S \ {x}, f)

RECURSIVE ProdOver(_, _)
ProdOver(S, f) ==
    IF S = {} THEN 1
    ELSE LET x == CHOOSE y \in S : TRUE IN f[x] * ProdOver(S \ {x}, f)

Max(S) == CHOOSE x \in S : \A y \in S : y <= x

\* Twice the number of (positive, negative) pairs the scores rank correctly,
\* a tie counting half: the numerator of the area under the ROC curve.
Concordance(isPos, score, n) ==
    LET pos == {i \in 1..n : isPos[i]}
        neg == {i \in 1..n : ~isPos[i]}
        Pair(i, j) == IF score[i] > score[j] THEN 2 ELSE IF score[i] = score[j] THEN 1 ELSE 0
        row == [i \in pos |-> SumOver(neg, [j \in neg |-> Pair(i, j)])]
    IN  SumOver(pos, row)

\* sklearn.metrics.roc_auc_score for binary labels and a score vector, as the
\* fraction <<numerator, denominator>>; the class with the greater label is
\* the positive one.
BinaryAuc(y_true, y_score) ==
    LET n == Len(y_true)
        classes == {y_true[i] : i \in 1..n}
        isPos == [i \in 1..n |-> y_true[i] = Max(classes)]
        P == Cardinality({i \in 1..n : isPos[i]})
    IN  <<Concordance(isPos, y_score, n), 2 * P * (n - P)>>

\* The index of a class among the sorted classes: its column of the matrix.
ColumnOf(c, classes) == Cardinality({d \in classes : d <= c})

\* roc_auc_score(average="weighted", multi_class="ovr"): the support-weighted
\* mean of the one-vs-rest areas, as one fraction.
MulticlassAuc(y_true, y_score) ==
    LET n == Len(y_true)
        classes == {y_true[i] : i \in 1..n}
        rest == [c \in classes |-> n - Cardinality({i \in 1..n : y_true[i] = c})]
        Num(c) == Concordance([i \in 1..n |-> y_true[i] = c],
                              [i \in 1..n |-> y_score[i][ColumnOf(c, classes)]], n)
        term == [c \in classes |-> Num(c) * ProdOver(classes \ {c}, rest)]
    IN  <<SumOver(classes, term), 2 * n * ProdOver(classes, rest)>>

\* class_probabilities[:, 1]: the second column (numpy counts from 0).
Column1(m) == [i \in 1..Len(m) |-> m[i][2]]

RocEvent(fn) == [fn |-> fn]

TooFewRecords_empty(m) == Len(m) < 1

\* `len(class_probabilities) <= 1` (line 338).
TooFewRecords(m) == Len(m) <= 1

\* `len(class_probabilities[0]) <= 2` (line 345).
IsBinaryWidth(m) == Len(m[1]) <= 2

\* The whole of evaluate_roc_metrics: what it raises, returns and calls.
RocEvaluation(labels, m) ==
    LET classes == {labels[i] : i \in 1..Len(labels)} IN
    IF TooFewRecords(m)
    THEN [raised |-> "ValueError: only 1 record", result |-> <<>>, calls |-> <<>>]
    ELSE IF IsBinaryWidth(m)
    THEN IF Len(m[1]) < 2
         THEN [raised |-> "IndexError", result |-> <<>>, calls |-> <<>>]
         ELSE IF Cardinality(classes) # 2
         THEN [raised |-> "ValueError", result |-> <<>>,
               calls |-> << RocEvent("roc_auc_score") >>]
         ELSE [raised |-> NoError,
               result |-> << Entry("roc_auc_score", BinaryAuc(labels, Column1(m))) >>,
               calls |-> << RocEvent("roc_auc_score"), RocEvent("print"),
                            RocEvent("RocCurveDisplay.from_estimator(model)"),
                            RocEvent("plot"), RocEvent("show") >>]
    ELSE IF \/ Cardinality(classes) # Len(m[1])
            \/ \E i \in 1..Len(m) : SumSeq(m[i], Len(m[i])) # 1
         THEN [raised |-> "ValueError", result |-> <<>>,
               calls |-> << RocEvent("roc_auc_score") >>]
         ELSE [raised |-> NoError,
               result |-> << Entry("roc_auc_score", MulticlassAuc(labels, m)) >>,
               calls |-> << RocEvent("roc_auc_score"), RocEvent("print"),
                            RocEvent("plot_multiclass_roc") >>]

evaluate_roc_metrics(labels, m) ==
    /\ op' = "evaluate_roc_metrics"
    /\ args' = [labels |-> labels, class_probabilities |-> m]
    /\ \E r \in {RocEvaluation(labels, m)} :
         /\ raised' = r.raised
         /\ result' = r.result
         /\ calls' = r.calls
    /\ UNCHANGED <<attrVars, ioVars, cvVars, metric_dict, baseline_value, nOps>>

InitRoc ==
    Constructed("ClassifierExperimentBase", None, None, DefaultRndInt, DefaultSplitCount, None)

\* One call on each constructed controller: the method neither reads nor
\* writes the controller's state, so a later call behaves as the first.
RocCall ==
    /\ op = "__init__"
    /\ \E r \in 0..MaxRows, w \in Widths :
          \E m \in Matrices(r, w), labels \in [1..r -> Labels] :
              evaluate_roc_metrics(labels, m)

NextRoc == RocCall

SpecRoc == InitRoc /\ [][NextRoc]_vars

(***************************************************************************)
(* Claims about construction and persistence (checked under SpecIO).       *)
(***************************************************************************)

\* C1: after construction the two strategy slots are bound independently:
\* store_model is the supplied storage function or default_store_model,
\* load_model is the supplied loading function or default_load_model; a
\* supplied loading function is never in the storage slot and load_model is
\* always defined.
C1_SlotsBoundIndependently ==
    /\ store_model = (IF ctor.model_storage_function # None
                      THEN ctor.model_storage_function ELSE "default_store_model")
    /\ load_model = (IF ctor.model_loading_function # None
                     THEN ctor.model_loading_function ELSE "default_load_model")
    /\ store_model \notin (LoadingArgs \ {None})
    /\ load_model # Undefined

\* C6: default_load_model mirrors default_store_model: once default_store_model
\* has written a model, default_load_model called for that model reads exactly
\* the path and format that was written for it, and gets that model back.
C6_LoadMirrorsStore ==
    (op = "default_load_model" /\ \E f \in files : f.model = args.model)
        => \E f \in files :
              /\ f.model = args.model
              /\ calls[1].path = f.path
              /\ calls[1].format = f.format
              /\ raised = NoError

(***************************************************************************)
(* Claims about the registry and evaluate_predictions (under SpecEval).    *)
(***************************************************************************)
IsEvaluation == op = "evaluate_predictions"

\* The argument the label-based calls of the last evaluation were given.
ScoredArg == IF args.baseline_prediction THEN "baseline_value" ELSE "predictions"

\* How the registered function of an entry ends on the scored value / on
\* class_probabilities, for the arguments of the last evaluation.
LabelOutcome(e) == IF e.value = args.bad THEN args.on_pred ELSE "ok"

ProbaOutcome(e) == IF e.value = args.bad THEN args.on_proba ELSE "ok"

HasF1(name) ==
    \E i \in 1..(Len(name) - 1) : name[i] = "f" /\ name[i + 1] = "1"

Entries == {metric_dict[i] : i \in 1..Len(metric_dict)}

\* Positions in calls of the metric calls made for a name on an argument.
CallsFor(name, on) ==
    {k \in 1..Len(calls) : calls[k].fn # "print" /\ calls[k].name = name /\ calls[k].on = on}

ResultKeys == {result[i].key : i \in 1..Len(result)}

ResultOf(key) == {result[i].value : i \in {j \in 1..Len(result) : result[j].key = key}}

\* The entry's scoring failed: on the scored value and on class_probabilities.
ScoringFailed(e) == LabelOutcome(e) # "ok" /\ ProbaOutcome(e) # "ok"

\* The entry was evaluated: its function was called on the scored value.
Evaluated(e) == \E k \in CallsFor(e.key, ScoredArg) : calls[k].fn = e.value

ClassifierEvaluationRan ==
    /\ IsEvaluation
    /\ kind = "ClassifierExperimentBase"
    /\ raised # "ValueError: no baseline value"

\* The result is returned, holds no metric whose scoring failed, and every
\* registered metric was evaluated.
FailuresTolerated ==
    /\ raised = NoError
    /\ \A e \in Entries : Evaluated(e)
    /\ \A e \in Entries : (~HasF1(e.key) /\ ScoringFailed(e)) => e.key \notin ResultKeys

\* C3 as stated: in classifier evaluate_predictions no metric's scoring
\* failure aborts the evaluation, whatever the metric's name and whatever the
\* kind of failure: the failed metric is omitted, every other registered
\* metric is still evaluated and the result mapping is returned.
C3_NoFailureAborts == ClassifierEvaluationRan => FailuresTolerated

\* Every failure of the evaluation is a ValueError of a metric whose name does
\* not contain "f1".
OnlyCaughtFailures ==
    \A e \in Entries :
        IF HasF1(e.key) THEN LabelOutcome(e) = "ok"
        ELSE /\ LabelOutcome(e) \in {"ok", "ValueError"}
             /\ LabelOutcome(e) = "ValueError" => ProbaOutcome(e) \in {"ok", "ValueError"}

\* C3 amended: a ValueError raised by a metric whose name does not contain
\* "f1" (on the scored value, and again on class_probabilities) does not abort
\* the evaluation: the metric is omitted, every other registered metric is
\* evaluated and the result is returned.  A failure of a metric whose name
\* contains "f1", or a failure that is not a ValueError, ends the evaluation
\* with that exception.
C3_ValueErrorsTolerated ==
    ClassifierEvaluationRan =>
        IF OnlyCaughtFailures THEN FailuresTolerated
        ELSE raised \in {"ValueError", "TypeError"}

C3_Witness ==
    /\ ClassifierEvaluationRan
    /\ raised = NoError
    /\ \E e \in Entries : ~HasF1(e.key) /\ ScoringFailed(e) /\ e.key \notin ResultKeys
    /\ \E e \in Entries : e.key \in ResultKeys

\* C4: for a registered metric whose name does not contain "f1" the recorded
\* value is the metric on (labels, scored value) when that call succeeds,
\* otherwise the metric on (labels, class_probabilities) when that call
\* succeeds, otherwise the name is absent; the call on class_probabilities is
\* made only after the call on the scored value has failed.
C4_FallbackOrder ==
    (IsEvaluation /\ kind = "ClassifierExperimentBase") =>
        \A e \in Entries : ~HasF1(e.key) =>
            /\ \A p \in CallsFor(e.key, "class_probabilities") :
                  /\ LabelOutcome(e) # "ok"
                  /\ \E l \in CallsFor(e.key, ScoredArg) : l < p
            /\ raised = NoError =>
                  IF LabelOutcome(e) = "ok"
                  THEN ResultOf(e.key) = {Score(e.value, ScoredArg, "")}
                  ELSE IF ProbaOutcome(e) = "ok"
                  THEN ResultOf(e.key) = {Score(e.value, "class_probabilities", "")}
                  ELSE ResultOf(e.key) = {}

C4_Witness ==
    /\ IsEvaluation
    /\ kind = "ClassifierExperimentBase"
    /\ raised = NoError
    /\ \E e \in Entries :
          /\ ~HasF1(e.key)
          /\ LabelOutcome(e) = "ValueError"
          /\ ResultOf(e.key) = {Score(e.value, "class_probabilities", "")}

\* C5: on both specializations, evaluate_predictions with
\* baseline_prediction=True and a baseline value that was never configured
\* raises the configuration error before any metric is called and returns
\* nothing; the registry and the baseline value are unchanged.
C5_BaselineRequired ==
    [][(/\ op' = "evaluate_predictions"
        /\ args'.baseline_prediction
        /\ baseline_value.isNone
        /\ kind \in {"ClassifierExperimentBase", "RegressionExperimentBase"})
        => /\ raised' = "ValueError: no baseline value"
           /\ calls' = <<>>
           /\ result' = <<>>
           /\ UNCHANGED <<metric_dict, baseline_value>>]_vars

C5_Witness ==
    /\ IsEvaluation
    /\ kind = "RegressionExperimentBase"
    /\ args.baseline_prediction
    /\ baseline_value.isNone
    /\ metric_dict # <<>>
    /\ raised = "ValueError: no baseline value"

\* The names a registry can hold in this model.
AllNames == AddNames \cup RemoveNames \cup DictKeys(ClassifierMetrics) \cup DictKeys(RegressionMetrics)

\* The functions a registry maps a name to: one, or none.
FnsOf(d, name) == {d[i].value : i \in {j \in 1..Len(d) : d[j].key = name}}

OthersUnchanged(name) ==
    \A n \in AllNames \ {name} : FnsOf(metric_dict', n) = FnsOf(metric_dict, n)

\* add_metric binds the name to the function given, remove_metric unbinds it,
\* both leave every other name alone, and nothing else changes the registry.
\* (The registrations of the constructor count as the first add_metric calls.)
LastWriteWins ==
    /\ op' = "add_metric" =>
          FnsOf(metric_dict', args'.name) = {args'.metric} /\ OthersUnchanged(args'.name)
    /\ op' = "remove_metric" =>
          FnsOf(metric_dict', args'.name) = {} /\ OthersUnchanged(args'.name)
    /\ op' \notin {"add_metric", "remove_metric"} =>
          \A n \in AllNames : FnsOf(metric_dict', n) = FnsOf(metric_dict, n)
    /\ DictKeys(metric_dict') \subseteq AllNames
    /\ Len(metric_dict') = Cardinality(DictKeys(metric_dict'))

\* The metrics the evaluation in the next state scored: (name, function) of
\* every metric call it made.
ScoredNext ==
    {<<calls'[k].name, calls'[k].fn>> : k \in {j \in 1..Len(calls') : calls'[j].fn # "print"}}

RegisteredNow == {<<metric_dict[i].key, metric_dict[i].value>> : i \in 1..Len(metric_dict)}

IsSpecialization == kind \in {"ClassifierExperimentBase", "RegressionExperimentBase"}

\* C10 as stated: the registry is last-write-wins by name and an
\* evaluate_predictions call scores exactly the metrics registered at the
\* time of the call.
C10_ScoresExactlyRegistry ==
    [][/\ LastWriteWins
       /\ (op' = "evaluate_predictions" /\ IsSpecialization) => ScoredNext = RegisteredNow]_vars

\* C10 amended: the registry is last-write-wins by name; an
\* evaluate_predictions call that returns a result has scored exactly the
\* metrics registered at the time of the call, and one that raises has scored
\* only metrics registered at the time of the call.
C10_RegistryLastWriteWins ==
    [][/\ LastWriteWins
       /\ (op' = "evaluate_predictions" /\ IsSpecialization) =>
             /\ ScoredNext \subseteq RegisteredNow
             /\ raised' = NoError => ScoredNext = RegisteredNow]_vars

C10_Witness ==
    /\ IsEvaluation
    /\ raised = NoError
    /\ nOps = 2
    /\ FnsOf(metric_dict, n_f1) = {"custom_metric"}
    /\ \E k \in 1..Len(calls) : calls[k].name = n_f1 /\ calls[k].fn = "custom_metric"

\* The label-based metric calls of the last evaluation: every metric call that
\* was not handed class_probabilities.
LabelBasedCalls ==
    {k \in 1..Len(calls) : calls[k].fn # "print" /\ calls[k].on # "class_probabilities"}

NoBaselineError == raised # "ValueError: no baseline value"

\* C13: in both specializations, an evaluation with baseline_prediction set
\* and a baseline configured (any value, also 0, 0.0 or another falsy one)
\* does not raise the "no baseline configured" error and hands the baseline
\* to every label-based metric call as the scored value; an evaluation with
\* baseline_prediction unset scores the predictions and never reads the
\* baseline.
C13_ConfiguredBaselineScored ==
    (IsEvaluation /\ IsSpecialization) =>
        /\ (args.baseline_prediction /\ ~baseline_value.isNone) =>
              /\ NoBaselineError
              /\ \A k \in LabelBasedCalls : calls[k].on = "baseline_value"
        /\ ~args.baseline_prediction =>
              /\ NoBaselineError
              /\ \A k \in LabelBasedCalls : calls[k].on = "predictions"

(***************************************************************************)
(* Claims about the keys of the result (checked under SpecDrain).          *)
(***************************************************************************)
\* The three keys an averaged metric is recorded under.
AveragedKeys(name) ==
    { name \o <<"_", "m", "a", "c", "r", "o">>,
      name \o <<"_", "m", "i", "c", "r", "o">>,
      name \o <<"_", "w", "e", "i", "g", "h", "t", "e", "d">> }

\* The entry's metric resolved: it returned a score on the scored value, or
\* raised ValueError there and returned a score on class_probabilities.
Resolved(e) ==
    \/ LabelOutcome(e) = "ok"
    \/ LabelOutcome(e) = "ValueError" /\ ProbaOutcome(e) = "ok"

\* The keys the registry determines.
KeysOfRegistry ==
    UNION { IF HasF1(e.key) THEN AveragedKeys(e.key)
            ELSE IF Resolved(e) THEN {e.key}
            ELSE {} : e \in Entries }

PrintedLines == {k \in 1..Len(calls) : calls[k].fn = "print"}

\* C11: the keys of the mapping classifier evaluate_predictions returns are
\* determined by the registry: name_macro, name_micro and name_weighted for
\* every registered name that contains "f1", the name itself for every other
\* registered name that resolved, and no other key; an empty registry gives
\* an empty mapping and no diagnostics.
C11_KeysFromRegistry ==
    (IsEvaluation /\ kind = "ClassifierExperimentBase" /\ raised = NoError) =>
        /\ ResultKeys = KeysOfRegistry
        /\ Len(result) = Cardinality(ResultKeys)
        /\ metric_dict = <<>> => (result = <<>> /\ PrintedLines = {})

C11_Witness ==
    /\ IsEvaluation
    /\ kind = "ClassifierExperimentBase"
    /\ raised = NoError
    /\ metric_dict = <<>>
    /\ result = <<>>

(***************************************************************************)
(* Claims about cross-validation (checked under SpecCV).                   *)
(***************************************************************************)

\* C2: every iteration of a cv_splits(n) generator yields the same fold
\* partitions as every earlier one with the same n, whatever was called in
\* between.
C2_SplitsIdentical ==
    \A i, j \in 1..Len(produced) :
        produced[i].n_splits = produced[j].n_splits
            => produced[i].folds = produced[j].folds

\* A cv_search call, made directly or through train_model with a parameter space.
IsSearchCall(o, a) ==
    o = "cv_search" \/ (o = "train_model" /\ TruthyParams(a.params))

\* C9: cv_search (directly, or through train_model with a parameter space) on
\* a controller without a standard metric (the base class) raises the "no
\* standard metric" error before a search object is built, a split generator
\* is created or the model is fitted; on the classifier and regression
\* specializations that error is never raised.
C9_SearchFailsFastWithoutMetric ==
    [][IsSearchCall(op', args') =>
          IF kind = "ExperimentBase"
          THEN /\ raised' = "NotImplementedError"
               /\ calls' = <<>>
               /\ UNCHANGED cvVars
          ELSE raised' # "NotImplementedError"]_vars

C9_Witness ==
    /\ kind = "ExperimentBase"
    /\ op = "train_model"
    /\ TruthyParams(args.params)
    /\ raised = "NotImplementedError"

CallsTo(fn) == {k \in 1..Len(calls) : calls[k].fn = fn}

\* The search object the selector asks for, and the one it does not.
SearchAskedFor == IF args.cv_model = "grid_search" THEN "GridSearchCV" ELSE "RandomizedSearchCV"

SearchNotAskedFor == IF args.cv_model = "grid_search" THEN "RandomizedSearchCV" ELSE "GridSearchCV"

\* C12: train_model dispatches on the parameter space: given any mapping as
\* params, also one with no entries, it runs the search dispatcher, never
\* calls fit on the passed model and returns the dispatcher's best estimator;
\* only with params absent it fits the passed model once and returns that
\* model.  The dispatcher builds exhaustive grid search exactly when cv_model
\* is "grid_search" and randomized search for every other selector.
C12_DispatchOnParams ==
    /\ op = "train_model" =>
          IF args.params.given
          THEN /\ CallsTo("model.fit") = {}
               /\ raised = NoError => result = "best_estimator_"
          ELSE /\ Cardinality(CallsTo("model.fit")) = 1
               /\ CallsTo("cv_search.fit") = {}
               /\ raised = NoError
               /\ result = "model"
    /\ (op \in {"train_model", "cv_search"} /\ CallsTo("cv_search.fit") # {}) =>
          /\ Cardinality(CallsTo(SearchAskedFor)) = 1
          /\ CallsTo(SearchNotAskedFor) = {}

(***************************************************************************)
(* Claims about ROC evaluation (checked under SpecRoc).                    *)
(***************************************************************************)
IsRocCall == op = "evaluate_roc_metrics"

RocRecords == Len(args.class_probabilities)

RocWidth == Len(args.class_probabilities[1])

TestClasses == {args.labels[i] : i \in 1..Len(args.labels)}

\* Equality of two fractions.
SameFraction(x, y) == x[1] * y[2] = y[1] * x[2]

\* The area under the ROC curve of column index 1 against the test labels,
\* counted pair by pair: a record of the greater class ranked above a record
\* of the smaller class counts 1, a tie 1/2.
PairwiseAucOfColumn1 ==
    LET m == args.class_probabilities
        y == args.labels
        hi == CHOOSE c \in TestClasses : \A d \in TestClasses : d <= c
        pairs == {<<i, j>> \in (1..Len(m)) \X (1..Len(m)) : y[i] = hi /\ y[j] # hi}
        won == {q \in pairs : m[q[1]][2] > m[q[2]][2]}
        tied == {q \in pairs : m[q[1]][2] = m[q[2]][2]}
    IN  <<2 * Cardinality(won) + Cardinality(tied), 2 * Cardinality(pairs)>>

\* C7: on the binary branch, for every probability matrix with more than one
\* record and row width at most 2 (width 1 and width 2), the call returns a
\* mapping holding the roc_auc_score of column index 1 against the test
\* labels.  (The test labels are taken to hold exactly two classes.)
C7_BinaryAucFromColumn1 ==
    (IsRocCall /\ RocRecords > 1 /\ RocWidth \in {1, 2} /\ Cardinality(TestClasses) = 2)
        => /\ raised = NoError
           /\ Len(result) = 1
           /\ result[1].key = "roc_auc_score"
           /\ SameFraction(result[1].value, PairwiseAucOfColumn1)

\* C8: with one record or none the call raises the insufficient-data error
\* before an AUC is computed, a curve is rendered or the model is used; with
\* two or more records that error is never raised.
C8_InsufficientData ==
    IsRocCall =>
        IF RocRecords <= 1
        THEN raised = "ValueError: only 1 record" /\ calls = <<>> /\ result = <<>>
        ELSE raised # "ValueError: only 1 record"

C8_Witness ==
    /\ IsRocCall
    /\ RocRecords = 1
    /\ RocWidth = 2
    /\ raised = "ValueError: only 1 record"

====
